---------------------------- MODULE Spec2Model ----------------------------
(***************************************************************************)
(* Streaming relay (server/index.js) and incremental renderer (the browser *)
(* script) of the QB chat widget.                                          *)
(*                                                                         *)
(* Texts are sequences of code points.  Spec is one request handled by the *)
(* Express server (POST /api/chat or POST /api/suggest); PoolSpec is two   *)
(* requests of /api/chat handled at the same time; ClientSpec is one       *)
(* assistant turn of the browser's sendMessage; SessionSpec is two turns,  *)
(* which may overlap; SanitizeSpec applies sanitizeAssistant to a text and *)
(* then to its own result.                                                 *)
(***************************************************************************)
EXTENDS Integers, Sequences, FiniteSets, TLC

VARIABLES
    \* ---- server: one request -------------------------------------------
    route,        \* "chat" | "suggest" | "none"
    reqMessage,   \* req.body?.message, a JSON value or undefined
    env,          \* process.env after module start-up: GEMINI_API_KEY, GOOGLE_API_KEY
    spc,          \* position of the handler
    statusCode,   \* res.statusCode
    resJson,      \* body sent by res.json(), or NoJson
    resWrites,    \* the chunks given to res.write(), in order
    resEnded,     \* res.end() (or res.json()) has been called
    resCalls,     \* the calls made on res that returned: "write", "end", "json"
    upCalls,      \* calls made to the upstream model
    upRecv,       \* texts of the upstream fragments consumed by the for-await loop
    outcome,      \* how the upstream call went
    noticeThrew,  \* the write of the failure notice threw
    upReply,      \* /api/suggest: result.response.text(), with how it was made
    \* ---- browser: the page and its assistant turns ----------------------
    isMobile,       \* window.matchMedia('(max-width: 640px)').matches
    entries,        \* the children of messagesEl, in order
    turns,          \* the sendMessage calls made so far, one record each
    buttonDisabled, \* formEl.querySelector("button").disabled
    requests,       \* the fetch calls made so far, in order
    turnBudget,     \* sendMessage calls the user may still start
    chatBodies,     \* which texts a response of /api/chat may carry: "any", "short"
    \* ---- sanitizeAssistant on its own -----------------------------------
    san,            \* the text given to sanitizeAssistant and what it returned
    \* ---- server: requests of /api/chat handled at the same time ---------
    conns           \* one record for each request: its handler and its response

serverVars == <<route, reqMessage, env, spc, statusCode, resJson, resWrites,
                resEnded, resCalls, upCalls, upRecv, outcome, noticeThrew, upReply>>

clientVars == <<isMobile, entries, turns, buttonDisabled, requests, turnBudget,
                chatBodies>>

\* what a handler of the server leaves alone, and what the page leaves alone
outsideServer == <<clientVars, san, conns>>
outsideClient == <<serverVars, san, conns>>

vars == <<serverVars, clientVars, san, conns>>

---------------------------------------------------------------------------
(* Bounds of the model *)

MaxMessageLen == 2
MaxFragments == 3
MaxArrayLen == 6
MaxPieces == 4
MaxTextLen == 2
MaxSanitizePieces == 7

---------------------------------------------------------------------------
(* Generic helpers on sequences *)

RECURSIVE Flatten(_)
Flatten(ss) == IF ss = <<>> THEN <<>> ELSE Head(ss) \o Flatten(Tail(ss))

SeqsUpTo(S, n) == UNION {[1..k -> S] : k \in 0..n}

---------------------------------------------------------------------------
(* JavaScript values and conversions used by the handlers *)

Undefined == [t |-> "undefined"]
Null == [t |-> "null"]
Str(s) == [t |-> "str", s |-> s]
Num(n) == [t |-> "num", n |-> n]
Obj == [t |-> "obj"]
Arr(items) == [t |-> "arr", items |-> items]

\* code points
Space == 32
NewLine == 10
Tab == 9
BackTick == 96
\* U+FEFF, in UTF-8 the bytes EF BB BF
BOM == 65279
\* U+FFFD
Replacement == 65533

\* the characters the model's texts are made of, besides those above:
\* eAcute, euro and grin take two, three and four bytes in UTF-8
Char == [a |-> 97, b |-> 98, c |-> 99, k |-> 107, zero |-> 48, seven |-> 55,
         eAcute |-> 233, euro |-> 8364, grin |-> 128512]

WhiteSpace == {Space, NewLine, Tab}

\* String(v ?? ""): undefined and null become "", a string is itself, the
\* number 0 becomes "0".
ToStr(v) ==
    CASE v.t = "undefined" -> <<>>
      [] v.t = "null" -> <<>>
      [] v.t = "str" -> v.s
      [] v.t = "num" -> IF v.n = 0 THEN <<Char.zero>> ELSE <<Char.seven>>

RECURSIVE TrimStart(_)
TrimStart(s) ==
    IF s # <<>> /\ Head(s) \in WhiteSpace THEN TrimStart(Tail(s)) ELSE s

RECURSIVE TrimEnd(_)
TrimEnd(s) ==
    IF s # <<>> /\ s[Len(s)] \in WhiteSpace
    THEN TrimEnd(SubSeq(s, 1, Len(s) - 1))
    ELSE s

TrimNone(s) == s

\* String.prototype.trim
Trim(s) == TrimEnd(TrimStart(s))

\* const userText = String(req.body?.message ?? "").trim();
UserText(m) == Trim(ToStr(m))

\* a || b on environment strings: undefined and "" are falsy
Falsy(v) == v.t = "undefined" \/ (v.t = "str" /\ v.s = <<>>)
Or(a, b) == IF Falsy(a) THEN b ELSE a

ApiKeyDefault(e) == IF Falsy(Or(e.GEMINI_API_KEY, e.GOOGLE_API_KEY))
                    THEN Str(<<Char.k>>)
                    ELSE Or(e.GEMINI_API_KEY, e.GOOGLE_API_KEY)

\* const apiKey = process.env.GEMINI_API_KEY || process.env.GOOGLE_API_KEY;
ApiKey(e) == Or(e.GEMINI_API_KEY, e.GOOGLE_API_KEY)

\* Module start-up: GOOGLE_API_KEY is copied into a missing GEMINI_API_KEY.
EnvAfterStartup(e) ==
    IF Falsy(e.GEMINI_API_KEY) /\ ~Falsy(e.GOOGLE_API_KEY)
    THEN [e EXCEPT !.GEMINI_API_KEY = e.GOOGLE_API_KEY]
    ELSE e

EnvValues == {Undefined, Str(<<>>), Str(<<Char.k>>)}
RawEnvs == [GEMINI_API_KEY : EnvValues, GOOGLE_API_KEY : EnvValues]

MessageChars == {Space, Char.a}
Messages == {Undefined, Null, Num(0)}
            \cup {Str(s) : s \in SeqsUpTo(MessageChars, MaxMessageLen)}

---------------------------------------------------------------------------
(* Responses *)

NoJson == [t |-> "none"]
ErrorJson(msg) == [t |-> "error", error |-> msg]

MissingMessage == "Missing 'message' in request body"
ChatMisconfigured ==
    "Server misconfiguration: GEMINI_API_KEY (or GOOGLE_API_KEY) not set in .env"

\* "\n[Error] Unable to complete the response. Please try again.\n"
\* the middle line is one item, which no fragment contains
Notice == <<NewLine, -5, NewLine>>

FragmentTexts == {<<>>, <<Char.a>>, <<Char.b, Char.c>>}

Body == Flatten(resWrites)

\* res.status(code).json(body): sets the status, sends the body, ends the response
SendJson(code, body) ==
    /\ statusCode' = code
    /\ resJson' = body
    /\ resEnded' = TRUE
    /\ resCalls' = Append(resCalls, "json")

WriteFragmentIfEmpty(writes, text) ==
    IF text = <<>> THEN Append(writes, text) ELSE writes

WriteFragmentTwice(writes, text) ==
    IF text # <<>> THEN writes \o <<text, text>> ELSE writes

\* if (text) { res.write(text); }
WriteFragment(writes, text) ==
    IF text # <<>> THEN Append(writes, text) ELSE writes

---------------------------------------------------------------------------
(* POST /api/chat *)

\* if (!userText) { res.status(400).json(...); return; }
ChatReject400 ==
    /\ route = "chat" /\ spc = "start"
    /\ UserText(reqMessage) = <<>>
    /\ SendJson(400, ErrorJson(MissingMessage))
    /\ spc' = "done"
    /\ UNCHANGED <<route, reqMessage, env, resWrites, upCalls, upRecv, outcome,
                   noticeThrew, upReply>>
    /\ UNCHANGED outsideServer

\* if (!apiKey) { res.status(500).json(...); return; }
ChatReject500 ==
    /\ route = "chat" /\ spc = "start"
    /\ UserText(reqMessage) # <<>>
    /\ Falsy(ApiKey(env))
    /\ SendJson(500, ErrorJson(ChatMisconfigured))
    /\ spc' = "done"
    /\ UNCHANGED <<route, reqMessage, env, resWrites, upCalls, upRecv, outcome,
                   noticeThrew, upReply>>
    /\ UNCHANGED outsideServer

\* headers are prepared and generateContentStream is called; the handler
\* then awaits its result
ChatOpenStream ==
    /\ route = "chat" /\ spc = "start"
    /\ UserText(reqMessage) # <<>>
    /\ ~Falsy(ApiKey(env))
    /\ upCalls' = upCalls + 1
    /\ spc' = "open"
    /\ UNCHANGED <<route, reqMessage, env, statusCode, resJson, resWrites,
                   resEnded, resCalls, upRecv, outcome, noticeThrew, upReply>>
    /\ UNCHANGED outsideServer

\* catch (err) { try { res.write(notice); res.end(); } catch (_) {} }
\* wthrow: res.write throws, so that res.end() is skipped.
CatchBlock(writes, why, wthrow) ==
    /\ outcome' = why
    /\ noticeThrew' = wthrow
    /\ resWrites' = IF wthrow THEN writes ELSE Append(writes, Notice)
    /\ resEnded' = ~wthrow
    /\ resCalls' = IF wthrow THEN resCalls ELSE resCalls \o <<"write", "end">>
    /\ spc' = "done"

\* await model.generateContentStream(...) resolves
StreamOpened ==
    /\ route = "chat" /\ spc = "open"
    /\ spc' = "loop"
    /\ UNCHANGED <<route, reqMessage, env, statusCode, resJson, resWrites,
                   resEnded, resCalls, upCalls, upRecv, outcome, noticeThrew,
                   upReply>>
    /\ UNCHANGED outsideServer

\* await model.generateContentStream(...) rejects
StreamOpenFailed ==
    /\ route = "chat" /\ spc = "open"
    /\ \E wthrow \in BOOLEAN : CatchBlock(resWrites, "upstream_failed", wthrow)
    /\ UNCHANGED <<route, reqMessage, env, statusCode, resJson, upCalls, upRecv, upReply>>
    /\ UNCHANGED outsideServer

\* one turn of the for-await loop: a fragment arrives and is written
StreamFragment ==
    /\ route = "chat" /\ spc = "loop"
    /\ Len(upRecv) < MaxFragments
    /\ \E text \in FragmentTexts :
        /\ upRecv' = Append(upRecv, text)
        /\ resWrites' = WriteFragment(resWrites, text)
        /\ resCalls' = IF text # <<>> THEN Append(resCalls, "write") ELSE resCalls
    /\ UNCHANGED <<route, reqMessage, env, spc, statusCode, resJson, resEnded,
                   upCalls, outcome, noticeThrew, upReply>>
    /\ UNCHANGED outsideServer

\* a fragment arrives and res.write(text) throws
StreamWriteFailed ==
    /\ route = "chat" /\ spc = "loop"
    /\ Len(upRecv) < MaxFragments
    /\ \E text \in FragmentTexts \ {<<>>} :
        /\ upRecv' = Append(upRecv, text)
        /\ \E wthrow \in BOOLEAN : CatchBlock(resWrites, "write_failed", wthrow)
    /\ UNCHANGED <<route, reqMessage, env, statusCode, resJson, upCalls, upReply>>
    /\ UNCHANGED outsideServer

\* the stream's iterator rejects, or chunk.text() throws
StreamFailed ==
    /\ route = "chat" /\ spc = "loop"
    /\ \E wthrow \in BOOLEAN : CatchBlock(resWrites, "upstream_failed", wthrow)
    /\ UNCHANGED <<route, reqMessage, env, statusCode, resJson, upCalls, upRecv, upReply>>
    /\ UNCHANGED outsideServer

\* the stream completes: res.end()
StreamCompleted ==
    /\ route = "chat" /\ spc = "loop"
    /\ outcome' = "completed"
    /\ resEnded' = TRUE
    /\ resCalls' = Append(resCalls, "end")
    /\ spc' = "done"
    /\ UNCHANGED <<route, reqMessage, env, statusCode, resJson, resWrites,
                   upCalls, upRecv, noticeThrew, upReply>>
    /\ UNCHANGED outsideServer

---------------------------------------------------------------------------
(* JSON texts, as sequences of tokens, and JSON.parse *)

StringTokens == {"\"a\"", "\"b\""}
ScalarTokens == StringTokens \cup {"7", "null", "{}"}

\* the value a scalar token denotes
ParseScalar(tok) ==
    CASE tok = "\"a\"" -> Str(<<Char.a>>)
      [] tok = "\"b\"" -> Str(<<Char.b>>)
      [] tok = "7" -> Num(7)
      [] tok = "null" -> Null
      [] tok = "{}" -> Obj

\* element (, element)*
IsElementList(toks) ==
    /\ Len(toks) % 2 = 1
    /\ \A i \in 1..Len(toks) :
          IF i % 2 = 1 THEN toks[i] \in ScalarTokens ELSE toks[i] = ","

\* JSON.parse(text): ok is FALSE where it throws a SyntaxError
ParseJSON(toks) ==
    IF Len(toks) = 1 /\ toks[1] \in ScalarTokens
    THEN [ok |-> TRUE, v |-> ParseScalar(toks[1])]
    ELSE IF Len(toks) >= 2 /\ toks[1] = "[" /\ toks[Len(toks)] = "]"
    THEN LET inner == SubSeq(toks, 2, Len(toks) - 1) IN
         IF inner = <<>>
         THEN [ok |-> TRUE, v |-> Arr(<<>>)]
         ELSE IF IsElementList(inner)
         THEN [ok |-> TRUE,
               v |-> Arr([i \in 1..((Len(inner) + 1) \div 2) |->
                            ParseScalar(inner[2 * i - 1])])]
         ELSE [ok |-> FALSE, v |-> Undefined]
    ELSE [ok |-> FALSE, v |-> Undefined]

\* JSON.stringify of an array of scalars, given by their tokens
RECURSIVE JoinTokens(_)
JoinTokens(elems) ==
    IF elems = <<>> THEN <<>>
    ELSE IF Len(elems) = 1 THEN <<elems[1]>>
    ELSE <<elems[1], ",">> \o JoinTokens(Tail(elems))

Serialize(elems) == <<"[">> \o JoinTokens(elems) \o <<"]">>

ElementTokens == {"\"a\"", "\"b\"", "7"}
ArrayReplies == SeqsUpTo(ElementTokens, MaxArrayLen)

\* texts that are not JSON, and JSON texts that are not arrays
MalformedReplies ==
    {<<>>, <<"oops">>, <<"[">>, <<"[", "\"a\"">>, <<"\"a\"", "]">>,
     <<"[", ",", "]">>, <<"[", "\"a\"", ",", "]">>, <<"[", "\"a\"", "\"b\"", "]">>,
     <<"\"a\"", ",", "\"b\"">>}
    \cup {<<tok>> : tok \in ScalarTokens}

NoReply == [kind |-> "none", text |-> <<>>, elems |-> <<>>]

---------------------------------------------------------------------------
(* POST /api/suggest *)

SuggestCap == 5

SuggestionsJson(list) == [t |-> "suggestions", suggestions |-> list]

FirstN(s, n) == SubSeq(s, 1, IF Len(s) < n THEN Len(s) ELSE n)

IsString(v) == v.t = "str"

SuggestionsSliceFirst(text) ==
    LET parsed == ParseJSON(text)
        s0 == IF parsed.ok THEN parsed.v ELSE Arr(<<>>)
        s1 == IF s0.t = "arr" THEN s0 ELSE Arr(<<>>)
    IN  SelectSeq(FirstN(s1.items, SuggestCap), IsString)

\* let suggestions = []; try { suggestions = JSON.parse(text); } catch (_) { suggestions = []; }
\* if (!Array.isArray(suggestions)) suggestions = [];
\* suggestions = suggestions.filter((s) => typeof s === "string").slice(0, 5);
Suggestions(text) ==
    LET parsed == ParseJSON(text)
        s0 == IF parsed.ok THEN parsed.v ELSE Arr(<<>>)
        s1 == IF s0.t = "arr" THEN s0 ELSE Arr(<<>>)
    IN  FirstN(SelectSeq(s1.items, IsString), SuggestCap)

\* const apiKey = process.env.GEMINI_API_KEY || process.env.GOOGLE_API_KEY || "";
SuggestApiKey(e) == Or(Or(e.GEMINI_API_KEY, e.GOOGLE_API_KEY), Str(<<>>))

SuggestMisconfigured == "Server misconfiguration: GEMINI_API_KEY not set"

\* if (!apiKey) { res.status(500).json(...); return; }
SuggestReject500 ==
    /\ route = "suggest" /\ spc = "start"
    /\ Falsy(SuggestApiKey(env))
    /\ SendJson(500, ErrorJson(SuggestMisconfigured))
    /\ spc' = "done"
    /\ UNCHANGED <<route, reqMessage, env, resWrites, upCalls, upRecv, outcome,
                   noticeThrew, upReply>>
    /\ UNCHANGED outsideServer

\* model.generateContent(...) is called and awaited
SuggestCall ==
    /\ route = "suggest" /\ spc = "start"
    /\ ~Falsy(SuggestApiKey(env))
    /\ upCalls' = upCalls + 1
    /\ spc' = "call"
    /\ UNCHANGED <<route, reqMessage, env, statusCode, resJson, resWrites,
                   resEnded, resCalls, upRecv, outcome, noticeThrew, upReply>>
    /\ UNCHANGED outsideServer

\* res.json({ suggestions }): the status stays the default 200
SuggestRespond(text) ==
    SendJson(200, SuggestionsJson(Suggestions(text)))

\* the upstream replies with a text: an array of scalars, or something else
SuggestReplied ==
    /\ route = "suggest" /\ spc = "call"
    /\ \E reply \in {[kind |-> "array", text |-> Serialize(a), elems |-> a] :
                          a \in ArrayReplies}
                  \cup {[kind |-> "malformed", text |-> m, elems |-> <<>>] :
                          m \in MalformedReplies} :
        /\ upReply' = reply
        /\ SuggestRespond(reply.text)
    /\ outcome' = "replied"
    /\ spc' = "done"
    /\ UNCHANGED <<route, reqMessage, env, resWrites, upCalls, upRecv, noticeThrew>>
    /\ UNCHANGED outsideServer

SuggestCatch500 == SendJson(500, ErrorJson(SuggestMisconfigured))

\* catch (err) { res.status(200).json({ suggestions: [] }); }
SuggestCatch == SendJson(200, SuggestionsJson(<<>>))

\* generateContent rejects, or result.response.text() throws
SuggestFailed ==
    /\ route = "suggest" /\ spc = "call"
    /\ SuggestCatch
    /\ outcome' = "upstream_failed"
    /\ spc' = "done"
    /\ UNCHANGED <<route, reqMessage, env, resWrites, upCalls, upRecv, noticeThrew,
                   upReply>>
    /\ UNCHANGED outsideServer

---------------------------------------------------------------------------
(* Browser: texts are sequences of code points; a constant string of the   *)
(* page that no response can contain is one negative number.               *)


IntroHtml == <<-1>>
\* "Sorry, something went wrong. Please try again."
SorryText == <<-2>>
\* "Network error. Please check your connection."
NetworkErrorText == <<-3>>
\* the body of a response that is not OK, as response.text() gives it
ErrorBodyText == <<-4>>

DefaultQuestions == << <<-11>>, <<-12>>, <<-13>>, <<-14>>, <<-15>> >>

IsLetter(c) == (c >= 65 /\ c <= 90) \/ (c >= 97 /\ c <= 122)

\* three backticks start at s[p]
FenceAt(s, p) ==
    /\ p >= 1 /\ p + 2 <= Len(s)
    /\ s[p] = BackTick /\ s[p + 1] = BackTick /\ s[p + 2] = BackTick

\* [a-zA-Z]* from s[j]: the first index that holds no letter
RECURSIVE LettersEnd(_, _)
LettersEnd(s, j) ==
    IF j <= Len(s) /\ IsLetter(s[j]) THEN LettersEnd(s, j + 1) ELSE j

\* ([\s\S]*?)``` from s[k]: the first index >= k where three backticks
\* start, 0 when there is none
RECURSIVE NextFence(_, _)
NextFence(s, k) ==
    IF k + 2 > Len(s) THEN 0
    ELSE IF FenceAt(s, k) THEN k
    ELSE NextFence(s, k + 1)

\* the match of /```[a-zA-Z]*\n([\s\S]*?)```/ that starts at s[p]
FenceMatch(s, p) ==
    IF ~FenceAt(s, p) THEN [ok |-> FALSE, from |-> 0, to |-> 0, next |-> 0]
    ELSE LET j == LettersEnd(s, p + 3) IN
         IF ~(j <= Len(s) /\ s[j] = NewLine)
         THEN [ok |-> FALSE, from |-> 0, to |-> 0, next |-> 0]
         ELSE LET k == NextFence(s, j + 1) IN
              IF k = 0
              THEN [ok |-> FALSE, from |-> 0, to |-> 0, next |-> 0]
              ELSE [ok |-> TRUE, from |-> j + 1, to |-> k - 1, next |-> k + 3]

RECURSIVE StripFencesDropBody(_, _)
StripFencesDropBody(s, i) ==
    IF i > Len(s) THEN <<>>
    ELSE LET m == FenceMatch(s, i) IN
         IF m.ok
         THEN StripFencesDropBody(s, m.next)
         ELSE <<s[i]>> \o StripFencesDropBody(s, i + 1)

\* out.replace(/```[a-zA-Z]*\n([\s\S]*?)```/g, "$1"), scanning from s[i]
RECURSIVE StripFences(_, _)
StripFences(s, i) ==
    IF i > Len(s) THEN <<>>
    ELSE LET m == FenceMatch(s, i) IN
         IF m.ok
         THEN SubSeq(s, m.from, m.to) \o StripFences(s, m.next)
         ELSE <<s[i]>> \o StripFences(s, i + 1)

StripTicksKeep(s, i) == SubSeq(s, i, Len(s))

\* out.replace(/```/g, ""), scanning from s[i]
RECURSIVE StripTicks(_, _)
StripTicks(s, i) ==
    IF i > Len(s) THEN <<>>
    ELSE IF FenceAt(s, i) THEN StripTicks(s, i + 3)
    ELSE <<s[i]>> \o StripTicks(s, i + 1)

sanitizeAssistant(input) ==
    IF input = <<>> THEN <<>>
    ELSE StripTicks(StripFences(input, 1), 1)

---------------------------------------------------------------------------
(* UTF-8: the server's encoding of a string and the browser's TextDecoder *)

\* the UTF-8 bytes of one code point
EncodeCodePoint(c) ==
    IF c < 128 THEN <<c>>
    ELSE IF c < 2048 THEN <<192 + (c \div 64), 128 + (c % 64)>>
    ELSE IF c < 65536
         THEN <<224 + (c \div 4096), 128 + ((c \div 64) % 64), 128 + (c % 64)>>
    ELSE <<240 + (c \div 262144), 128 + ((c \div 4096) % 64),
           128 + ((c \div 64) % 64), 128 + (c % 64)>>

RECURSIVE EncodeUtf8(_)
EncodeUtf8(text) ==
    IF text = <<>> THEN <<>>
    ELSE EncodeCodePoint(Head(text)) \o EncodeUtf8(Tail(text))

\* new TextDecoder(): UTF-8, not fatal, ignoreBOM false
NewDecoder ==
    [need |-> 0, seen |-> 0, cp |-> 0, lo |-> 128, hi |-> 191, bomSeen |-> FALSE]

ResetSequence(d) == [d EXCEPT !.need = 0, !.seen = 0, !.cp = 0, !.lo = 128, !.hi = 191]

\* a decoded code point reaches the output: the first one is dropped when it
\* is U+FEFF
Emit(r, c) ==
    [d |-> [ResetSequence(r.d) EXCEPT !.bomSeen = TRUE],
     out |-> IF ~r.d.bomSeen /\ c = BOM THEN r.out ELSE Append(r.out, c)]

\* the UTF-8 decoder's handler, over the bytes of one chunk; r is the decoder
\* with the output so far
RECURSIVE DecodeBytes(_, _)
DecodeBytes(r, bytes) ==
    IF bytes = <<>> THEN r
    ELSE LET b == Head(bytes)
             d == r.d
         IN
         IF d.need = 0
         THEN IF b <= 127 THEN DecodeBytes(Emit(r, b), Tail(bytes))
              ELSE IF b >= 194 /\ b <= 223
              THEN DecodeBytes([r EXCEPT !.d.need = 1, !.d.cp = b % 32], Tail(bytes))
              ELSE IF b >= 224 /\ b <= 239
              THEN DecodeBytes([r EXCEPT !.d.need = 2, !.d.cp = b % 16,
                                         !.d.lo = IF b = 224 THEN 160 ELSE 128,
                                         !.d.hi = IF b = 237 THEN 159 ELSE 191],
                               Tail(bytes))
              ELSE IF b >= 240 /\ b <= 244
              THEN DecodeBytes([r EXCEPT !.d.need = 3, !.d.cp = b % 8,
                                         !.d.lo = IF b = 240 THEN 144 ELSE 128,
                                         !.d.hi = IF b = 244 THEN 143 ELSE 191],
                               Tail(bytes))
              ELSE DecodeBytes(Emit(r, Replacement), Tail(bytes))
         ELSE IF b < d.lo \/ b > d.hi
              \* the byte does not continue the sequence: U+FFFD, and the byte
              \* is handled again
              THEN DecodeBytes(Emit(r, Replacement), bytes)
              ELSE LET cp == d.cp * 64 + (b % 64) IN
                   IF d.seen + 1 = d.need
                   THEN DecodeBytes(Emit(r, cp), Tail(bytes))
                   ELSE DecodeBytes([r EXCEPT !.d.cp = cp, !.d.seen = d.seen + 1,
                                              !.d.lo = 128, !.d.hi = 191],
                                    Tail(bytes))

DecodeChunkNoStream(d, bytes) ==
    LET r == DecodeBytes([d |-> NewDecoder, out |-> <<>>], bytes) IN
    [d |-> NewDecoder,
     out |-> IF r.d.need # 0 THEN Append(r.out, Replacement) ELSE r.out]

\* decoder.decode(value, { stream: true }): an unfinished sequence at the end
\* of the chunk stays in the decoder
DecodeChunk(d, bytes) == DecodeBytes([d |-> d, out |-> <<>>], bytes)

---------------------------------------------------------------------------
(* Browser: the page *)

FirstItems(items, n) == SubSeq(items, 1, IF Len(items) < n THEN Len(items) ELSE n)

\* appendMessage({ role, text }): the bubble of an assistant holds the
\* sanitized text as HTML, the bubble of a user the text itself
MessageEntry(role, text) ==
    IF role = "assistant"
    THEN [role |-> role, mode |-> "html", content |-> sanitizeAssistant(text),
          chips |-> <<>>]
    ELSE [role |-> role, mode |-> "text", content |-> text, chips |-> <<>>]

\* renderInlineFAQ(items, titleText): an assistant entry of at most maxItems
\* buttons
FaqEntry(items, mobile) ==
    [role |-> "assistant", mode |-> "faq", content |-> <<>>,
     chips |-> FirstItems(items, IF mobile THEN 2 ELSE 5)]

\* DOMContentLoaded: the intro message, then the default questions
LoadedEntries(mobile) ==
    << MessageEntry("assistant", IntroHtml),
       FaqEntry(FirstItems(DefaultQuestions, IF mobile THEN 2 ELSE 5), mobile) >>

\* lastBubble.textContent = text
SetText(es, b, text) == [es EXCEPT ![b].mode = "text", ![b].content = text]

\* lastBubble.innerHTML = html
SetHtml(es, b, html) == [es EXCEPT ![b].mode = "html", ![b].content = html]

ChatRequest(text) == [url |-> "/api/chat", message |-> text, assistant |-> <<>>]

SuggestRequestWithoutReply(text, assistant) ==
    [url |-> "/api/suggest", message |-> text, assistant |-> <<>>]

SuggestRequest(text, assistant) ==
    [url |-> "/api/suggest", message |-> text, assistant |-> assistant]

\* what came of the fetch of /api/suggest: nothing yet, a rejected fetch, a
\* rejected sres.json(), or the data
NoSuggestReply == [kind |-> "none", data |-> Null]
SuggestRejected(kind) == [kind |-> kind, data |-> Null]
SuggestReply(data) == [kind |-> "data", data |-> data]

\* const bubbles = messagesEl.querySelectorAll(".msg .bubble");
\* const lastBubble = bubbles[bubbles.length - 1];
\* taken once, right after the assistant entry of the call is appended
lastBubbleLatest(t) == turns[Len(turns)].bubble

lastBubble(t) == turns[t].bubble

\* sendMessage(text), to its first await: the user entry, the empty assistant
\* entry, lastBubble, and the fetch of /api/chat
NewTurn(text, viaForm) ==
    [text |-> text, viaForm |-> viaForm, bubble |-> Len(entries) + 2,
     aiText |-> <<>>, pc |-> "fetch_chat", outcome |-> "none",
     original |-> <<>>, wire |-> <<>>, decoder |-> NewDecoder,
     midChar |-> FALSE, reply |-> NoSuggestReply]

StartTurn(text, viaForm) ==
    /\ turnBudget > 0
    /\ turnBudget' = turnBudget - 1
    /\ entries' = entries \o << MessageEntry("user", text),
                                MessageEntry("assistant", <<>>) >>
    /\ turns' = Append(turns, NewTurn(text, viaForm))
    /\ requests' = Append(requests, ChatRequest(text))

PromptChars == {Space, Char.a}

\* the submit handler run with promptEl.value = value:
\*   const text = promptEl.value.trim(); if (!text) return;
\*   button.disabled = true; await sendMessage(text);
SubmitValue(value) ==
    /\ LET text == Trim(value) IN
        IF text = <<>>
        THEN UNCHANGED <<entries, turns, requests, turnBudget, buttonDisabled>>
        ELSE /\ StartTurn(text, TRUE)
             /\ buttonDisabled' = TRUE
    /\ UNCHANGED <<isMobile, chatBodies>>
    /\ UNCHANGED outsideClient

SubmitWhileDisabled ==
    \E value \in SeqsUpTo(PromptChars, MaxMessageLen) : SubmitValue(value)

\* the form's submit handler: a blank prompt returns at once; otherwise the
\* button is disabled and sendMessage is awaited
Submit ==
    /\ ~buttonDisabled
    /\ \E value \in SeqsUpTo(PromptChars, MaxMessageLen) : SubmitValue(value)

ChipClickDisabling ==
    /\ \E e \in 1..Len(entries) : \E i \in 1..Len(entries[e].chips) :
          StartTurn(entries[e].chips[i], FALSE)
    /\ buttonDisabled' = TRUE
    /\ UNCHANGED <<isMobile, chatBodies>>
    /\ UNCHANGED outsideClient

\* a click on a button[data-q] of the feed: sendMessage(q)
ChipClick ==
    /\ \E e \in 1..Len(entries) : \E i \in 1..Len(entries[e].chips) :
          StartTurn(entries[e].chips[i], FALSE)
    /\ UNCHANGED <<isMobile, chatBodies, buttonDisabled>>
    /\ UNCHANGED outsideClient

\* sendMessage returns: the submit handler, when it awaited this call,
\* enables the button again
Finish(t, outcome_, entries_) ==
    /\ turns' = [turns EXCEPT ![t].pc = "done", ![t].outcome = outcome_]
    /\ entries' = entries_
    /\ buttonDisabled' = IF turns[t].viaForm THEN FALSE ELSE buttonDisabled

\* the inner try of the suggestions ends, and with it sendMessage
FinishSuggest(t, reply_, entries_) ==
    /\ turns' = [turns EXCEPT ![t].pc = "done", ![t].reply = reply_]
    /\ entries' = entries_
    /\ buttonDisabled' = IF turns[t].viaForm THEN FALSE ELSE buttonDisabled

NetworkErrorRethrown(t) ==
    /\ turns' = [turns EXCEPT ![t].pc = "done", ![t].outcome = "network_error"]
    /\ entries' = SetText(entries, lastBubble(t), NetworkErrorText)
    /\ buttonDisabled' = buttonDisabled

\* catch (err) { lastBubble.textContent = "Network error. ..."; }
NetworkError(t) ==
    Finish(t, "network_error", SetText(entries, lastBubble(t), NetworkErrorText))

\* fetch("/api/chat") rejects
ChatFetchFailed(t) ==
    /\ turns[t].pc = "fetch_chat"
    /\ NetworkError(t)
    /\ UNCHANGED <<isMobile, chatBodies, requests, turnBudget>>
    /\ UNCHANGED outsideClient

\* if (!response.ok || !response.body): response.text() is awaited
ChatResponseNotOk(t) ==
    /\ turns[t].pc = "fetch_chat"
    /\ turns' = [turns EXCEPT ![t].pc = "err_text"]
    /\ UNCHANGED <<isMobile, chatBodies, entries, buttonDisabled, requests, turnBudget>>
    /\ UNCHANGED outsideClient

\* lastBubble.textContent = errText || "Sorry, ..."; the same text when
\* response.text() rejects
ErrorTextShown(t) ==
    /\ turns[t].pc = "err_text"
    /\ \E errText \in {<<>>, ErrorBodyText} : \E rejected \in BOOLEAN :
          Finish(t, "not_ok",
                 SetText(entries, lastBubble(t),
                         IF rejected \/ errText = <<>> THEN SorryText ELSE errText))
    /\ UNCHANGED <<isMobile, chatBodies, requests, turnBudget>>
    /\ UNCHANGED outsideClient

Pieces == {<<BackTick, BackTick, BackTick>>, <<Char.a>>, <<NewLine>>}
CodePoints == {Char.a, Char.eAcute, Char.euro, Char.grin, BOM}

\* the texts a chat response may carry
ResponseTexts ==
    {Flatten(ps) : ps \in SeqsUpTo(Pieces, MaxPieces)}
    \cup SeqsUpTo(CodePoints, MaxTextLen)

\* the texts of the responses of a session of two turns
SessionBodies == {<<Char.a>>, <<Char.b, Char.c>>}

\* the texts the response of this run may carry
ChatBodies == IF chatBodies = "short" THEN SessionBodies ELSE ResponseTexts

\* the response is OK: response.body.getReader(), new TextDecoder(), and the
\* first reader.read() is awaited
ChatResponseOk(t) ==
    /\ turns[t].pc = "fetch_chat"
    /\ \E text \in ChatBodies :
          turns' = [turns EXCEPT ![t].pc = "read", ![t].original = text,
                                 ![t].wire = EncodeUtf8(text),
                                 ![t].decoder = NewDecoder]
    /\ UNCHANGED <<isMobile, chatBodies, entries, buttonDisabled, requests, turnBudget>>
    /\ UNCHANGED outsideClient

AccumulateLatest(aiText, chunk) == chunk

\* aiWrap.text += chunk;
Accumulate(aiText, chunk) == aiText \o chunk

BubbleAfterChunkAppended(shown, aiText, chunk) == shown \o sanitizeAssistant(chunk)

\* lastBubble.innerHTML = sanitizeAssistant(aiWrap.text);
BubbleAfterChunk(shown, aiText, chunk) == sanitizeAssistant(aiText)

\* reader.read() gives a chunk of the body, of any size: it is decoded,
\* added to aiWrap.text, and the bubble is rendered again
ReadChunk(t) ==
    /\ turns[t].pc = "read"
    /\ \E k \in 1..Len(turns[t].wire) :
        LET value == SubSeq(turns[t].wire, 1, k)
            r == DecodeChunk(turns[t].decoder, value)
            chunk == r.out
            aiText == Accumulate(turns[t].aiText, chunk)
            b == lastBubble(t)
        IN  /\ turns' = [turns EXCEPT
                           ![t].wire = SubSeq(turns[t].wire, k + 1, Len(turns[t].wire)),
                           ![t].decoder = r.d,
                           ![t].aiText = aiText,
                           ![t].midChar = turns[t].midChar \/ r.d.need # 0]
            /\ entries' = SetHtml(entries, b,
                                  BubbleAfterChunk(entries[b].content, aiText, chunk))
    /\ UNCHANGED <<isMobile, chatBodies, buttonDisabled, requests, turnBudget>>
    /\ UNCHANGED outsideClient

\* reader.read() gives done: the loop ends and /api/suggest is fetched
ReadDone(t) ==
    /\ turns[t].pc = "read"
    /\ turns[t].wire = <<>>
    /\ turns' = [turns EXCEPT ![t].pc = "fetch_suggest", ![t].outcome = "completed"]
    /\ requests' = Append(requests, SuggestRequest(turns[t].text, turns[t].aiText))
    /\ UNCHANGED <<isMobile, chatBodies, entries, buttonDisabled, turnBudget>>
    /\ UNCHANGED outsideClient

\* reader.read() rejects
ReadFailed(t) ==
    /\ turns[t].pc = "read"
    /\ NetworkError(t)
    /\ UNCHANGED <<isMobile, chatBodies, requests, turnBudget>>
    /\ UNCHANGED outsideClient

SuggestFetchFailedShown(t) ==
    /\ turns[t].pc = "fetch_suggest"
    /\ NetworkError(t)
    /\ UNCHANGED <<isMobile, chatBodies, requests, turnBudget>>
    /\ UNCHANGED outsideClient

\* fetch("/api/suggest") rejects: catch (_) { /* ignore */ }
SuggestFetchFailed(t) ==
    /\ turns[t].pc = "fetch_suggest"
    /\ FinishSuggest(t, SuggestRejected("fetch_failed"), entries)
    /\ UNCHANGED <<isMobile, chatBodies, requests, turnBudget>>
    /\ UNCHANGED outsideClient

\* fetch("/api/suggest") resolves: sres.json() is awaited
SuggestFetched(t) ==
    /\ turns[t].pc = "fetch_suggest"
    /\ turns' = [turns EXCEPT ![t].pc = "suggest_json"]
    /\ UNCHANGED <<isMobile, chatBodies, entries, buttonDisabled, requests, turnBudget>>
    /\ UNCHANGED outsideClient

\* what sres.json() may give: null, or an object whose suggestions field is
\* missing, a string, or an array
SuggestData ==
    {Null}
    \cup {[t |-> "obj", suggestions |-> v] :
            v \in {Undefined, Str(<<Char.a>>), Arr(<<>>), Arr(<< <<-21>> >>),
                   Arr(<< <<-21>>, <<-22>>, <<-23>> >>),
                   Arr(<< <<>>, <<Space, Char.a>> >>)}}

\* if (Array.isArray(data.suggestions) && data.suggestions.length)
\*   renderInlineFAQ(data.suggestions, "You can also ask:");
\* a null data makes data.suggestions throw, which the inner catch ignores
EntriesAfterSuggest(data, mobile, es) ==
    IF data.t = "obj" /\ data.suggestions.t = "arr" /\ data.suggestions.items # <<>>
    THEN Append(es, FaqEntry(data.suggestions.items, mobile))
    ELSE es

\* sres.json() resolves, or rejects (the inner catch ignores it)
SuggestShown(t) ==
    /\ turns[t].pc = "suggest_json"
    /\ \/ \E data \in SuggestData :
            FinishSuggest(t, SuggestReply(data),
                          EntriesAfterSuggest(data, isMobile, entries))
       \/ FinishSuggest(t, SuggestRejected("json_failed"), entries)
    /\ UNCHANGED <<isMobile, chatBodies, requests, turnBudget>>
    /\ UNCHANGED outsideClient

\* sanitizeAssistant is not being exercised on its own
NoSanitize == san = [pc |-> "none", input |-> <<>>, once |-> <<>>, twice |-> <<>>]

\* no requests are handled side by side
NoPool == conns = <<>>

\* the page when no script of it runs
NoClient ==
    /\ isMobile = FALSE
    /\ entries = <<>>
    /\ turns = <<>>
    /\ buttonDisabled = FALSE
    /\ requests = <<>>
    /\ turnBudget = 0
    /\ chatBodies = "none"

\* no request is being handled
NoServer ==
    /\ route = "none"
    /\ reqMessage = Undefined
    /\ env = [GEMINI_API_KEY |-> Undefined, GOOGLE_API_KEY |-> Undefined]
    /\ spc = "start"
    /\ statusCode = 200
    /\ resJson = NoJson
    /\ resWrites = <<>>
    /\ resEnded = FALSE
    /\ resCalls = <<>>
    /\ upCalls = 0
    /\ upRecv = <<>>
    /\ outcome = "none"
    /\ noticeThrew = FALSE
    /\ upReply = NoReply

\* the page after DOMContentLoaded, for one assistant turn
ClientInit ==
    /\ isMobile \in BOOLEAN
    /\ entries = LoadedEntries(isMobile)
    /\ turns = <<>>
    /\ buttonDisabled = FALSE
    /\ requests = <<>>
    /\ turnBudget = 1
    /\ chatBodies = "any"
    /\ NoServer
    /\ NoSanitize
    /\ NoPool

ClientNext ==
    \/ Submit
    \/ ChipClick
    \/ \E t \in 1..Len(turns) : ChatFetchFailed(t)
    \/ \E t \in 1..Len(turns) : ChatResponseNotOk(t)
    \/ \E t \in 1..Len(turns) : ErrorTextShown(t)
    \/ \E t \in 1..Len(turns) : ChatResponseOk(t)
    \/ \E t \in 1..Len(turns) : ReadChunk(t)
    \/ \E t \in 1..Len(turns) : ReadDone(t)
    \/ \E t \in 1..Len(turns) : ReadFailed(t)
    \/ \E t \in 1..Len(turns) : SuggestFetchFailed(t)
    \/ \E t \in 1..Len(turns) : SuggestFetched(t)
    \/ \E t \in 1..Len(turns) : SuggestShown(t)

ClientSpec == ClientInit /\ [][ClientNext]_vars

\* the page after DOMContentLoaded on a narrow screen, for a session of two
\* sendMessage calls, which may overlap
SessionInit ==
    /\ isMobile = TRUE
    /\ entries = LoadedEntries(isMobile)
    /\ turns = <<>>
    /\ buttonDisabled = FALSE
    /\ requests = <<>>
    /\ turnBudget = 2
    /\ chatBodies = "short"
    /\ NoServer
    /\ NoSanitize
    /\ NoPool

SessionSpec == SessionInit /\ [][ClientNext]_vars

---------------------------------------------------------------------------

Init ==
    /\ route \in {"chat", "suggest"}
    /\ reqMessage \in Messages
    /\ env \in {EnvAfterStartup(e) : e \in RawEnvs}
    /\ spc = "start"
    /\ statusCode = 200
    /\ resJson = NoJson
    /\ resWrites = <<>>
    /\ resEnded = FALSE
    /\ resCalls = <<>>
    /\ upCalls = 0
    /\ upRecv = <<>>
    /\ outcome = "none"
    /\ noticeThrew = FALSE
    /\ upReply = NoReply
    /\ NoClient
    /\ NoSanitize
    /\ NoPool

Next ==
    \/ ChatReject400
    \/ ChatReject500
    \/ ChatOpenStream
    \/ StreamOpened
    \/ StreamOpenFailed
    \/ StreamFragment
    \/ StreamWriteFailed
    \/ StreamFailed
    \/ StreamCompleted
    \/ SuggestReject500
    \/ SuggestCall
    \/ SuggestReplied
    \/ SuggestFailed

Spec == Init /\ [][Next]_vars

---------------------------------------------------------------------------
(* POST /api/chat: two requests handled at the same time.  Each handler has *)
(* its own req, res and streamResult; process.env is read by both.          *)

\* the texts the upstream call made for request r may stream
StreamTexts(r) == {<<>>, <<Char.a, Char.zero + r>>}

PoolMessages == {Undefined, Str(<<Char.a>>)}

PoolEnvs == {[GEMINI_API_KEY |-> Undefined, GOOGLE_API_KEY |-> Undefined],
             [GEMINI_API_KEY |-> Str(<<Char.k>>), GOOGLE_API_KEY |-> Undefined]}

\* a request that has arrived, before its handler runs
Arrived(message) ==
    [message |-> message, spc |-> "start", statusCode |-> 200, resJson |-> NoJson,
     resWrites |-> <<>>, resEnded |-> FALSE, upRecv |-> <<>>, outcome |-> "none",
     noticeThrew |-> FALSE]

PoolInit ==
    /\ \E m1, m2 \in PoolMessages : conns = << Arrived(m1), Arrived(m2) >>
    /\ env \in PoolEnvs
    /\ route = "none"
    /\ reqMessage = Undefined
    /\ spc = "start"
    /\ statusCode = 200
    /\ resJson = NoJson
    /\ resWrites = <<>>
    /\ resEnded = FALSE
    /\ resCalls = <<>>
    /\ upCalls = 0
    /\ upRecv = <<>>
    /\ outcome = "none"
    /\ noticeThrew = FALSE
    /\ upReply = NoReply
    /\ NoClient
    /\ NoSanitize

\* a step of the handler of request r: it leaves everything else alone
Handler(r, after) ==
    /\ conns' = [conns EXCEPT ![r] = after]
    /\ UNCHANGED <<route, reqMessage, env, spc, statusCode, resJson, resWrites,
                   resEnded, resCalls, upRecv, outcome, noticeThrew, upReply>>
    /\ UNCHANGED <<clientVars, san>>

\* res.status(code).json(body), then return
PoolSendJson(r, code, body) ==
    [conns[r] EXCEPT !.statusCode = code, !.resJson = body, !.resEnded = TRUE,
                     !.spc = "done"]

\* if (!userText) { res.status(400).json(...); return; }
PoolReject400(r) ==
    /\ conns[r].spc = "start"
    /\ UserText(conns[r].message) = <<>>
    /\ Handler(r, PoolSendJson(r, 400, ErrorJson(MissingMessage)))
    /\ UNCHANGED upCalls

\* if (!apiKey) { res.status(500).json(...); return; }
PoolReject500(r) ==
    /\ conns[r].spc = "start"
    /\ UserText(conns[r].message) # <<>>
    /\ Falsy(ApiKey(env))
    /\ Handler(r, PoolSendJson(r, 500, ErrorJson(ChatMisconfigured)))
    /\ UNCHANGED upCalls

\* const streamResult = await model.generateContentStream(...): the call
PoolOpenStream(r) ==
    /\ conns[r].spc = "start"
    /\ UserText(conns[r].message) # <<>>
    /\ ~Falsy(ApiKey(env))
    /\ upCalls' = upCalls + 1
    /\ Handler(r, [conns[r] EXCEPT !.spc = "open"])

\* the call of request r resolves
PoolStreamOpened(r) ==
    /\ conns[r].spc = "open"
    /\ Handler(r, [conns[r] EXCEPT !.spc = "loop"])
    /\ UNCHANGED upCalls

\* catch (err) { try { res.write(notice); res.end(); } catch (_) {} }
PoolCatchBlock(conn, why, wthrow) ==
    [conn EXCEPT !.outcome = why, !.noticeThrew = wthrow,
                 !.resWrites = IF wthrow THEN @ ELSE Append(@, Notice),
                 !.resEnded = ~wthrow, !.spc = "done"]

\* the call of request r rejects
PoolStreamOpenFailed(r) ==
    /\ conns[r].spc = "open"
    /\ \E wthrow \in BOOLEAN :
          Handler(r, PoolCatchBlock(conns[r], "upstream_failed", wthrow))
    /\ UNCHANGED upCalls

PoolStreamFragmentShared(r) ==
    /\ conns[r].spc = "loop"
    /\ Len(conns[r].upRecv) < MaxFragments
    /\ \E text \in StreamTexts(r) :
          conns' = [conns EXCEPT ![r].upRecv = Append(@, text),
                                 ![Len(conns)].resWrites = WriteFragment(@, text)]
    /\ UNCHANGED <<serverVars, clientVars, san>>

\* for await (const chunk of streamResult.stream) of request r: a fragment
\* arrives and is written to the response of request r
PoolStreamFragment(r) ==
    /\ conns[r].spc = "loop"
    /\ Len(conns[r].upRecv) < MaxFragments
    /\ \E text \in StreamTexts(r) :
          Handler(r, [conns[r] EXCEPT !.upRecv = Append(@, text),
                                      !.resWrites = WriteFragment(@, text)])
    /\ UNCHANGED upCalls

\* a fragment arrives and res.write(text) throws
PoolStreamWriteFailed(r) ==
    /\ conns[r].spc = "loop"
    /\ Len(conns[r].upRecv) < MaxFragments
    /\ \E text \in StreamTexts(r) \ {<<>>} : \E wthrow \in BOOLEAN :
          Handler(r, PoolCatchBlock([conns[r] EXCEPT !.upRecv = Append(@, text)],
                                    "write_failed", wthrow))
    /\ UNCHANGED upCalls

\* the stream of request r rejects, or chunk.text() throws
PoolStreamFailed(r) ==
    /\ conns[r].spc = "loop"
    /\ \E wthrow \in BOOLEAN :
          Handler(r, PoolCatchBlock(conns[r], "upstream_failed", wthrow))
    /\ UNCHANGED upCalls

\* the stream of request r completes: res.end()
PoolStreamCompleted(r) ==
    /\ conns[r].spc = "loop"
    /\ Handler(r, [conns[r] EXCEPT !.outcome = "completed", !.resEnded = TRUE,
                                   !.spc = "done"])
    /\ UNCHANGED upCalls

PoolNext ==
    \/ \E r \in 1..Len(conns) : PoolReject400(r)
    \/ \E r \in 1..Len(conns) : PoolReject500(r)
    \/ \E r \in 1..Len(conns) : PoolOpenStream(r)
    \/ \E r \in 1..Len(conns) : PoolStreamOpened(r)
    \/ \E r \in 1..Len(conns) : PoolStreamOpenFailed(r)
    \/ \E r \in 1..Len(conns) : PoolStreamFragment(r)
    \/ \E r \in 1..Len(conns) : PoolStreamWriteFailed(r)
    \/ \E r \in 1..Len(conns) : PoolStreamFailed(r)
    \/ \E r \in 1..Len(conns) : PoolStreamCompleted(r)

PoolSpec == PoolInit /\ [][PoolNext]_vars

---------------------------------------------------------------------------
(* sanitizeAssistant applied to a text, and then to its own result *)

SanitizePieces == {<<BackTick, BackTick, BackTick>>, <<BackTick>>, <<Char.a>>, <<NewLine>>}

SanitizeInputs == {Flatten(ps) : ps \in SeqsUpTo(SanitizePieces, MaxSanitizePieces)}

SanitizeInit ==
    /\ \E input \in SanitizeInputs :
          san = [pc |-> "input", input |-> input, once |-> <<>>, twice |-> <<>>]
    /\ NoServer
    /\ NoClient
    /\ NoPool

\* sanitizeAssistant(input)
SanitizeOnce ==
    /\ san.pc = "input"
    /\ san' = [san EXCEPT !.pc = "once", !.once = sanitizeAssistant(san.input)]
    /\ UNCHANGED <<serverVars, clientVars, conns>>

\* sanitizeAssistant(sanitizeAssistant(input))
SanitizeTwice ==
    /\ san.pc = "once"
    /\ san' = [san EXCEPT !.pc = "twice", !.twice = sanitizeAssistant(san.once)]
    /\ UNCHANGED <<serverVars, clientVars, conns>>

SanitizeNext == SanitizeOnce \/ SanitizeTwice

SanitizeSpec == SanitizeInit /\ [][SanitizeNext]_vars

---------------------------------------------------------------------------
(* Properties of the relay server, checked under Spec *)

\* the request's message is missing, empty or made of whitespace only
BlankMessage(m) ==
    \/ m.t = "undefined"
    \/ m.t = "str" /\ \A i \in 1..Len(m.s) : m.s[i] \in WhiteSpace

\* the request's message is a string with a character that is not whitespace
HasText(m) == m.t = "str" /\ \E i \in 1..Len(m.s) : m.s[i] \notin WhiteSpace

\* neither GEMINI_API_KEY nor GOOGLE_API_KEY holds a key
NoCredential == Falsy(env.GEMINI_API_KEY) /\ Falsy(env.GOOGLE_API_KEY)

NonEmpty(text) == text # <<>>

\* the fragments whose res.write returned: all those consumed, except the one
\* whose write threw
Forwarded ==
    IF outcome = "write_failed" THEN SubSeq(upRecv, 1, Len(upRecv) - 1) ELSE upRecv

NoticeWritten ==
    outcome \in {"upstream_failed", "write_failed"} /\ ~noticeThrew

ContainsNotice == \E i \in 1..Len(resWrites) : resWrites[i] = Notice

\* C1: a /api/chat request whose message is missing, empty or whitespace-only
\* never reaches the upstream model and never streams text, with or without a
\* credential, and is answered 400 { error: "Missing 'message' in request body" }.
C1_BlankMessageRejected ==
    (route = "chat" /\ BlankMessage(reqMessage)) =>
        /\ upCalls = 0
        /\ resWrites = <<>>
        /\ spc \in {"start", "done"}
        /\ spc = "done" =>
             /\ statusCode = 400
             /\ resJson = ErrorJson(MissingMessage)
             /\ resEnded

C1_Witness ==
    /\ route = "chat" /\ spc = "done"
    /\ reqMessage.t = "str" /\ reqMessage.s # <<>> /\ BlankMessage(reqMessage)
    /\ ~NoCredential
    /\ statusCode = 400

\* C2: a /api/chat request with a non-empty trimmed message and no credential
\* is answered 500 with a JSON error, before any upstream call and without any
\* streamed text.
C2_NoCredentialRejected ==
    (route = "chat" /\ HasText(reqMessage) /\ NoCredential) =>
        /\ upCalls = 0
        /\ resWrites = <<>>
        /\ spc \in {"start", "done"}
        /\ spc = "done" =>
             /\ statusCode = 500
             /\ resJson = ErrorJson(ChatMisconfigured)
             /\ resEnded

C2_Witness ==
    /\ route = "chat" /\ spc = "done"
    /\ HasText(reqMessage) /\ NoCredential
    /\ statusCode = 500

\* C3, as claimed: for every non-empty trimmed message the finished chat
\* response has status 200 and a body that is non-empty or contains the notice.
C3_Original ==
    (route = "chat" /\ HasText(reqMessage) /\ spc = "done") =>
        /\ statusCode = 200
        /\ (Body # <<>> \/ ContainsNotice)

\* C3, amended: without a credential the status is 500; with one it is 200, and
\* the body is non-empty exactly when a non-empty fragment was forwarded or the
\* failure notice was written (it is empty when the upstream completes without
\* a non-empty fragment).
C3_Amended ==
    (route = "chat" /\ HasText(reqMessage) /\ spc = "done") =>
        IF NoCredential
        THEN statusCode = 500 /\ Body = <<>>
        ELSE /\ statusCode = 200
             /\ (Body # <<>> \/ ContainsNotice) <=>
                  \/ \E i \in 1..Len(Forwarded) : Forwarded[i] # <<>>
                  \/ NoticeWritten
             /\ ContainsNotice <=> NoticeWritten

C3_Witness ==
    /\ route = "chat" /\ spc = "done" /\ HasText(reqMessage)
    /\ statusCode = 200
    /\ outcome = "completed"
    /\ upRecv # <<>>
    /\ Body = <<>>

\* C4: while the upstream stream is open, and when it has completed, the
\* response holds one write per non-empty fragment consumed so far, in the
\* order of arrival, so that the body is the concatenation of the fragments.
C4_FragmentsRelayedInOrder ==
    (route = "chat" /\ (spc = "loop" \/ (spc = "done" /\ outcome = "completed"))) =>
        /\ resWrites = SelectSeq(upRecv, NonEmpty)
        /\ Body = Flatten(upRecv)

C4_Witness ==
    /\ route = "chat" /\ spc = "done" /\ outcome = "completed"
    /\ Len(upRecv) >= 3
    /\ upRecv[1] = <<Char.b, Char.c>> /\ upRecv[2] = <<>> /\ upRecv[3] = <<Char.a>>
    /\ resEnded

\* C5: when the upstream call has failed, the finished response has status
\* 200, its writes are the fragments already forwarded followed by the notice,
\* and it is ended.
C5_InBandNotice ==
    (route = "chat" /\ spc = "done" /\ outcome = "upstream_failed") =>
        /\ statusCode = 200
        /\ resWrites = SelectSeq(upRecv, NonEmpty) \o <<Notice>>
        /\ resEnded

\* C6: a chat response of which a byte was sent is ended when its handler
\* has finished.
C6_StartedStreamIsEnded ==
    (route = "chat" /\ spc = "done" /\ Body # <<>>) => resEnded

\* C7: /api/suggest answers 200 { suggestions: [] } when the upstream call
\* throws and when the upstream reply is not JSON or not an array.
C7_MalformedReplyGivesEmpty ==
    (route = "suggest" /\ spc = "done"
       /\ (outcome = "upstream_failed" \/ upReply.kind = "malformed")) =>
        /\ statusCode = 200
        /\ resJson = SuggestionsJson(<<>>)
        /\ resEnded

C7_Witness ==
    /\ route = "suggest" /\ spc = "done"
    /\ upReply.kind = "malformed" /\ upReply.text = <<"\"a\"">>
    /\ statusCode = 200

\* the strings among the elements of an array reply, in order
RECURSIVE StringsOf(_)
StringsOf(elems) ==
    IF elems = <<>> THEN <<>>
    ELSE IF Head(elems) \in StringTokens
         THEN <<ParseScalar(Head(elems))>> \o StringsOf(Tail(elems))
         ELSE StringsOf(Tail(elems))

\* C8: for a reply that is a JSON array, the suggestions are the first five
\* (or fewer) of its string elements, in order: at most five items, all
\* strings, the non-strings dropped before the cap applies.
C8_FirstFiveStrings ==
    (route = "suggest" /\ spc = "done" /\ upReply.kind = "array") =>
        /\ statusCode = 200
        /\ resJson.t = "suggestions"
        /\ LET got == resJson.suggestions
               all == StringsOf(upReply.elems)
           IN  /\ Len(got) <= 5
               /\ Len(got) = IF Len(all) < 5 THEN Len(all) ELSE 5
               /\ \A i \in 1..Len(got) : got[i].t = "str" /\ got[i] = all[i]

C8_Witness ==
    /\ route = "suggest" /\ spc = "done" /\ upReply.kind = "array"
    /\ upReply.elems = <<"7", "\"a\"", "\"b\"", "\"a\"", "\"b\"", "\"a\"">>
    /\ Len(resJson.suggestions) = 5

---------------------------------------------------------------------------
(* Properties of the incremental renderer, checked under ClientSpec *)

Shown(t) == entries[turns[t].bubble]

\* C9, as claimed: in every state of an assistant turn, whatever its outcome,
\* its bubble displays sanitize(accumulated text).
C9_Original ==
    \A t \in 1..Len(turns) :
        Shown(t).content = sanitizeAssistant(turns[t].aiText)

\* C9, amended: the bubble displays sanitize(accumulated text), as HTML, from
\* its creation through every chunk and after the stream has completed; when
\* the response is not OK it displays the response's error text or the
\* fallback apology instead, and when the fetch or a read fails it displays
\* the network-error message in place of the accumulated text.
C9_Amended ==
    \A t \in 1..Len(turns) :
        CASE turns[t].outcome \in {"none", "completed"} ->
                /\ Shown(t).mode = "html"
                /\ Shown(t).content = sanitizeAssistant(turns[t].aiText)
          [] turns[t].outcome = "not_ok" ->
                /\ Shown(t).mode = "text"
                /\ Shown(t).content \in {ErrorBodyText, SorryText}
                /\ turns[t].aiText = <<>>
          [] turns[t].outcome = "network_error" ->
                /\ Shown(t).mode = "text"
                /\ Shown(t).content = NetworkErrorText

\* an opened fence has been rendered and its closing marker is still to come
C9_Witness ==
    \E t \in 1..Len(turns) :
        /\ turns[t].pc = "read"
        /\ turns[t].aiText = <<BackTick, BackTick, BackTick, NewLine, Char.a>>
        /\ turns[t].wire = <<BackTick, BackTick, BackTick>>
        /\ Shown(t).content = <<NewLine, Char.a>>

WithoutLeadingBOM(text) ==
    IF text # <<>> /\ Head(text) = BOM THEN Tail(text) ELSE text

\* C10, as claimed: when the stream has reported completion, the accumulated
\* text is the text whose UTF-8 bytes were sent, however they were split.
C10_Original ==
    \A t \in 1..Len(turns) :
        turns[t].outcome = "completed" => turns[t].aiText = turns[t].original

\* C10, amended: when the stream has reported completion, the accumulated
\* text is the text sent, without its first character when that is U+FEFF
\* (the decoder drops it as a byte order mark), however the bytes were split.
C10_Amended ==
    \A t \in 1..Len(turns) :
        turns[t].outcome = "completed" =>
            turns[t].aiText = WithoutLeadingBOM(turns[t].original)

\* a text of multi-byte characters has arrived in chunks that ended inside a
\* character
C10_Witness ==
    \E t \in 1..Len(turns) :
        /\ turns[t].outcome = "completed"
        /\ turns[t].midChar
        /\ turns[t].original = <<Char.euro, Char.grin>>
        /\ turns[t].aiText = <<Char.euro, Char.grin>>

---------------------------------------------------------------------------
(* Properties of sanitizeAssistant, checked under SanitizeSpec *)

\* three backticks in a row somewhere in s
HasFence(s) == \E p \in 1..Len(s) : FenceAt(s, p)

HasBackTick(s) == \E p \in 1..Len(s) : s[p] = BackTick

\* C11: sanitizing the result of sanitizeAssistant again gives the same text,
\* and the result never holds three backticks in a row.
C11_SanitizeIdempotent ==
    /\ san.pc \in {"once", "twice"} => ~HasFence(san.once)
    /\ san.pc = "twice" => san.twice = san.once

\* the removal of a fence has brought backticks of both sides together, and
\* the text has been sanitized twice
C11_Witness ==
    /\ san.pc = "twice"
    /\ \E p \in 2..Len(san.input) :
          LET m == FenceMatch(san.input, p) IN
          /\ m.ok
          /\ san.input[p - 1] = BackTick
          /\ m.next <= Len(san.input) /\ san.input[m.next] = BackTick
    /\ HasFence(StripFences(san.input, 1))
    /\ ~HasFence(san.once)

\* sub occurs in s as a run of consecutive items
Contains(s, sub) ==
    \E i \in 0..(Len(s) - Len(sub)) : SubSeq(s, i + 1, i + Len(sub)) = sub

\* a fenced block starts at s[p]: three backticks, letters, a newline, a
\* body that runs up to the next three backticks
FencedBlockAt(s, p) == FenceMatch(s, p).ok

BodyOfBlockAt(s, p) == SubSeq(s, FenceMatch(s, p).from, FenceMatch(s, p).to)

\* every run of backticks of s has a length that is a multiple of three
TicksComeInThrees(s) == ~HasBackTick(StripTicks(s, 1))

---------------------------------------------------------------------------
(* Properties of the browser script over a session, checked under          *)
(* SessionSpec                                                             *)

\* how many items of seq satisfy Test
CountIn(seq, Test(_)) == Cardinality({i \in 1..Len(seq) : Test(seq[i])})

\* the reply of /api/suggest that turn t received holds a non-empty array
HasSuggestions(turn) ==
    /\ turn.reply.kind = "data"
    /\ turn.reply.data.t = "obj"
    /\ turn.reply.data.suggestions.t = "arr"
    /\ turn.reply.data.suggestions.items # <<>>

\* the fetches of /api/suggest made so far
SuggestRequests == SelectSeq(requests, LAMBDA r : r.url = "/api/suggest")

\* C13: the requests to /api/suggest are, one for one, the turns whose chat
\* stream has reported completion, each carrying the message of its turn and
\* the whole text its turn has accumulated; a turn whose chat response was not
\* OK or whose transport failed has none; and the feed holds one entry of
\* chips for the page and one for each reply with a non-empty array.
C13_OneSuggestPerCompletedTurn ==
    /\ \A t \in 1..Len(turns) :
          turns[t].outcome = "completed" =>
              /\ turns[t].wire = <<>>
              /\ turns[t].pc \in {"fetch_suggest", "suggest_json", "done"}
    /\ LET Sent(turn) == [url |-> "/api/suggest", message |-> turn.text,
                         assistant |-> turn.aiText]
           Completed(turn) == turn.outcome = "completed"
       IN  /\ Len(SuggestRequests) = CountIn(turns, Completed)
           /\ \A i \in 1..Len(SuggestRequests) :
                 LET Same(r) == r = SuggestRequests[i]
                     SameTurn(turn) == Completed(turn) /\ Sent(turn) = SuggestRequests[i]
                 IN  CountIn(SuggestRequests, Same) = CountIn(turns, SameTurn)
    /\ LET IsFaq(e) == e.mode = "faq"
       IN  CountIn(entries, IsFaq) = 1 + CountIn(turns, HasSuggestions)

\* a turn has streamed a text of two characters, asked for suggestions with
\* it, and shown the chips of the reply, while another turn got no OK answer
C13_Witness ==
    \E t, u \in 1..Len(turns) :
        /\ turns[t].pc = "done" /\ turns[t].outcome = "completed"
        /\ Len(turns[t].aiText) = 2
        /\ HasSuggestions(turns[t])
        /\ turns[u].pc = "done" /\ turns[u].outcome = "not_ok"

\* this step starts a sendMessage call
TurnStarts == Len(turns') = Len(turns) + 1

\* the call this step starts
Started == turns'[Len(turns')]

\* the two entries and the request that sendMessage(q) makes before its first
\* await
SendsMessage(q) ==
    /\ entries' = entries \o
          << [role |-> "user", mode |-> "text", content |-> q, chips |-> <<>>],
             [role |-> "assistant", mode |-> "html", content |-> <<>>, chips |-> <<>>] >>
    /\ requests' = Append(requests,
                          [url |-> "/api/chat", message |-> q, assistant |-> <<>>])

\* what typing value and submitting the form does
LikeSubmitted(value) ==
    IF Trim(value) = <<>>
    THEN /\ entries' = entries /\ requests' = requests
         /\ buttonDisabled' = buttonDisabled
    ELSE /\ SendsMessage(Trim(value))
         /\ buttonDisabled' = TRUE

\* a sendMessage call that the form awaits is running
FormTurnInFlight == \E t \in 1..Len(turns) : turns[t].viaForm /\ turns[t].pc # "done"

\* C14 as stated: a click on a chip carrying q changes the entries, the
\* requests and the submit button as typing q and submitting the form does.
C14_Original ==
    [][(TurnStarts /\ ~Started.viaForm) => LikeSubmitted(Started.text)]_vars

\* C14: a click on a chip carrying q and a submission of a text that trims to
\* q both call sendMessage(q): the user entry q, an empty assistant entry and
\* POST /api/chat {message: q}.  The form sends only a trimmed, non-empty
\* text, while its button is enabled, and disables the button; the click on a
\* chip sends q as it is, leaves the button as it was, and the button is
\* disabled exactly while a call started by the form is running.
C14_Amended ==
    /\ [](buttonDisabled <=> FormTurnInFlight)
    /\ [][TurnStarts =>
            /\ SendsMessage(Started.text)
            /\ IF Started.viaForm
               THEN /\ ~buttonDisabled /\ buttonDisabled'
                    /\ Started.text = Trim(Started.text) /\ Started.text # <<>>
               ELSE buttonDisabled' = buttonDisabled]_vars

\* a chip carrying whitespace before its text has been clicked: its call is
\* running with the text as it was, and the submit button is enabled
C14_Witness ==
    \E t \in 1..Len(turns) :
        /\ ~turns[t].viaForm
        /\ turns[t].pc = "read"
        /\ turns[t].text = <<Space, Char.a>>
        /\ requests[Len(requests)].message = <<Space, Char.a>>
        /\ ~buttonDisabled

\* the turns whose read loop is running
Reading == {t \in 1..Len(turns) : turns[t].pc = "read"}

\* what turn t has accumulated is the head of its response, and what is left
\* to read is the rest of it
InArrivalOrder(t) ==
    turns[t].pc = "read" =>
        turns[t].aiText \o DecodeChunk(turns[t].decoder, turns[t].wire).out
            = turns[t].original

\* C15 as stated: at most one read loop is running at any time, and the
\* chunks of a turn are applied in the order of their arrival.
C15_Original ==
    /\ Cardinality(Reading) <= 1
    /\ \A t \in 1..Len(turns) : InArrivalOrder(t)

\* C15: the chunks of a turn are applied in the order of their arrival, one
\* chunk in one step that touches no other turn; at most one call started by
\* the form is running at any time, while calls started by chips run beside
\* it and beside each other.
C15_Amended ==
    /\ [](\A t \in 1..Len(turns) : InArrivalOrder(t))
    /\ [](Cardinality({t \in 1..Len(turns) :
                          turns[t].viaForm /\ turns[t].pc # "done"}) <= 1)
    /\ [][Cardinality({t \in 1..Len(turns) : turns'[t] # turns[t]}) <= 1]_vars

\* two read loops are running, each with a part of its response rendered
C15_Witness ==
    \E t, u \in Reading :
        /\ t # u
        /\ turns[t].aiText # <<>> /\ turns[t].wire # <<>>
        /\ turns[u].aiText # <<>>
        /\ turns[t].viaForm /\ ~turns[u].viaForm

---------------------------------------------------------------------------
(* The calls on the response of /api/chat, checked under Spec *)

\* the calls on res that end the response
EndingCalls == {i \in 1..Len(resCalls) : resCalls[i] \in {"end", "json"}}

\* C19: when the handler of /api/chat has finished, on whatever path, the
\* response has been ended by exactly one call, and that call is the last
\* one made on it.
C19_EndedExactlyOnce ==
    (route = "chat" /\ spc = "done") =>
        /\ Cardinality(EndingCalls) = 1
        /\ EndingCalls = {Len(resCalls)}

---------------------------------------------------------------------------
(* Requests of /api/chat handled at the same time, checked under PoolSpec *)

\* the fragments of request r whose res.write returned
PoolForwarded(r) ==
    IF conns[r].outcome = "write_failed"
    THEN SubSeq(conns[r].upRecv, 1, Len(conns[r].upRecv) - 1)
    ELSE conns[r].upRecv

\* the response of request r holds the non-empty fragments of its own
\* upstream call, in order, and after them the notice if it was written
OwnFragmentsInOrder(r) ==
    /\ \A i \in 1..Len(conns[r].upRecv) : conns[r].upRecv[i] \in StreamTexts(r)
    /\ conns[r].resWrites =
          SelectSeq(PoolForwarded(r), NonEmpty)
          \o (IF conns[r].outcome \in {"upstream_failed", "write_failed"}
                 /\ ~conns[r].noticeThrew
              THEN <<Notice>> ELSE <<>>)

\* the handler of request r can take its next step, whatever the other
\* request is doing
NotHeldUp(r) ==
    /\ conns[r].spc = "start" =>
          ENABLED (PoolReject400(r) \/ PoolReject500(r) \/ PoolOpenStream(r))
    /\ conns[r].spc = "open" =>
          (ENABLED PoolStreamOpened(r)) /\ (ENABLED PoolStreamOpenFailed(r))
    /\ conns[r].spc = "loop" =>
          /\ ENABLED PoolStreamCompleted(r)
          /\ ENABLED PoolStreamFailed(r)
          /\ Len(conns[r].upRecv) < MaxFragments => ENABLED PoolStreamFragment(r)

\* C16: with two requests of /api/chat handled at the same time, each
\* response holds the fragments of its own upstream call only, in order; a
\* handler is never held up by the other request; and a step of one handler
\* changes nothing of the other request.
C16_RequestsIndependent ==
    /\ [](\A r \in 1..Len(conns) : OwnFragmentsInOrder(r) /\ NotHeldUp(r))
    /\ [][Cardinality({r \in 1..Len(conns) : conns'[r] # conns[r]}) <= 1]_vars

\* the upstream call of the first request hangs after one fragment, and the
\* second request, started after it, has streamed two fragments and ended
C16_Witness ==
    /\ Len(conns) = 2
    /\ conns[1].spc = "loop" /\ Len(conns[1].resWrites) = 1
    /\ conns[2].spc = "done" /\ conns[2].outcome = "completed"
    /\ conns[2].resEnded
    /\ Len(conns[2].resWrites) = 2
    /\ conns[2].resWrites[1] # conns[1].resWrites[1]

\* turn t is fetching, or has fetched and is parsing, its suggestions
AwaitingSuggestions(t) == turns[t].pc \in {"fetch_suggest", "suggest_json"}

\* C17: a step of a turn that is waiting for its suggestions and does not get
\* a non-empty array (the fetch rejects, the body is not JSON, the data is
\* null, an error object, or has a missing, empty or non-array suggestions
\* field) changes no entry of the feed and appends none.
C17_SuggestFailureNotShown ==
    [][\A t \in 1..Len(turns) :
          (AwaitingSuggestions(t) /\ turns'[t] # turns[t] /\ ~HasSuggestions(turns'[t]))
              => entries' = entries]_vars

\* a turn has ended on a body of /api/suggest that was not JSON: its bubble
\* shows the streamed text and it is the last entry of the feed
C17_Witness ==
    \E t \in 1..Len(turns) :
        /\ turns[t].pc = "done" /\ turns[t].reply.kind = "json_failed"
        /\ turns[t].aiText # <<>>
        /\ entries[lastBubble(t)].content = sanitizeAssistant(turns[t].aiText)
        /\ lastBubble(t) = Len(entries)

\* a is the head of b
IsPrefix(a, b) == Len(a) <= Len(b) /\ SubSeq(b, 1, Len(a)) = a

\* C18: the text of an assistant turn is empty when the turn starts; a step
\* changes it only while the read loop of the turn runs, and then to the old
\* text followed by the chunk decoded in that step; once the loop has ended,
\* by completion or by failure, it never changes again.
C18_TextGrowsThenFrozen ==
    /\ [](\A t \in 1..Len(turns) :
             turns[t].pc \in {"fetch_chat", "err_text"} => turns[t].aiText = <<>>)
    /\ [][\A t \in 1..Len(turns) :
             /\ IsPrefix(turns[t].aiText, turns'[t].aiText)
             /\ turns[t].pc # "read" => turns'[t].aiText = turns[t].aiText
             /\ turns'[t].aiText # turns[t].aiText =>
                   /\ turns'[t].pc = "read"
                   /\ turns'[t].aiText \o
                         DecodeChunk(turns'[t].decoder, turns'[t].wire).out
                      = turns[t].aiText \o
                         DecodeChunk(turns[t].decoder, turns[t].wire).out]_vars

\* a turn has taken the first chunk of its response, and its stream has then
\* ended by a failure: the text stays at that chunk
C18_Witness ==
    \E t \in 1..Len(turns) :
        /\ turns[t].pc = "done" /\ turns[t].outcome = "network_error"
        /\ turns[t].original = <<Char.b, Char.c>>
        /\ turns[t].aiText = <<Char.b>>

\* the bubble turn t created: the assistant entry appended right after the
\* user entry that holds the text of the turn
CreatedBy(t, e) ==
    /\ e = turns[t].bubble
    /\ e \in 2..Len(entries)
    /\ entries[e].role = "assistant" /\ entries[e].chips = <<>>
    /\ entries[e - 1].role = "user" /\ entries[e - 1].content = turns[t].text

\* C20: with calls of sendMessage running side by side, every call has a
\* bubble of its own, and a step that changes an entry of the feed is a step
\* of the call that created it, writing that call's own text or error text.
C20_OwnBubbleOnly ==
    /\ [](\A t, u \in 1..Len(turns) :
             /\ CreatedBy(t, turns[t].bubble)
             /\ t # u => turns[t].bubble # turns[u].bubble)
    /\ [][\A e \in 1..Len(entries) :
             entries'[e] # entries[e] =>
                 \E t \in 1..Len(turns) :
                     /\ CreatedBy(t, e)
                     /\ turns'[t] # turns[t]
                     /\ \A u \in 1..Len(turns) : u # t => turns'[u] = turns[u]
                     /\ entries'[e].content \in
                           {sanitizeAssistant(turns'[t].aiText), NetworkErrorText,
                            SorryText, ErrorBodyText}]_vars

\* two calls are reading their responses at once, the older one started by
\* the form and the newer one by a chip, and each bubble shows the text of
\* its own call
C20_Witness ==
    \E t, u \in 1..Len(turns) :
        /\ t < u
        /\ turns[t].viaForm /\ ~turns[u].viaForm
        /\ turns[t].pc = "read" /\ turns[u].pc = "read"
        /\ turns[t].aiText = <<Char.b, Char.c>> /\ turns[u].aiText = <<Char.a>>
        /\ entries[turns[t].bubble].content = <<Char.b, Char.c>>
        /\ entries[turns[u].bubble].content = <<Char.a>>

\* the values of the prompt that are empty or hold whitespace only
BlankPrompts ==
    {v \in SeqsUpTo(PromptChars, MaxMessageLen) :
        \A i \in 1..Len(v) : v[i] \in WhiteSpace}

\* the submit handler, run with value, changes the feed, the requests or the
\* button
SubmitChanges(value) ==
    /\ SubmitValue(value)
    /\ <<entries, requests, buttonDisabled>>' # <<entries, requests, buttonDisabled>>

\* C21: the submit button is disabled in every state in which a call started
\* by the form has not finished, from the state the submission leaves; the
\* step that finishes such a call, whatever its outcome (completed with or
\* without suggestions, response not OK, network error), leaves the button
\* enabled; and the submit handler run on an empty or whitespace-only prompt
\* appends no entry, sends no request and leaves the button as it was.
C21_ButtonFollowsFormTurn ==
    /\ [](\A t \in 1..Len(turns) :
             (turns[t].viaForm /\ turns[t].pc # "done") => buttonDisabled)
    /\ [](\A v \in BlankPrompts :
             /\ ~buttonDisabled => ENABLED SubmitValue(v)
             /\ ~ENABLED SubmitChanges(v))
    /\ [][\A t \in 1..Len(turns) :
             (turns[t].viaForm /\ turns[t].pc # "done" /\ turns'[t].pc = "done") =>
                 /\ ~buttonDisabled'
                 /\ turns'[t].outcome \in {"completed", "not_ok", "network_error"}]_vars

\* two calls started by the form have finished, one on a response that was
\* not OK and one on a completed stream whose fetch of suggestions failed,
\* and the button is enabled
C21_Witness ==
    \E t, u \in 1..Len(turns) :
        /\ turns[t].viaForm /\ turns[u].viaForm
        /\ turns[t].pc = "done" /\ turns[t].outcome = "not_ok"
        /\ turns[u].pc = "done" /\ turns[u].outcome = "completed"
        /\ turns[u].reply.kind = "fetch_failed"
        /\ ~buttonDisabled

===========================================================================
